---- MODULE Spec2Model ----
(***************************************************************************)
(* The WhatsApp session manager (class WhatsAppService) as a state         *)
(* machine: its fields, the in-flight async calls suspended at an await,   *)
(* the pending setTimeout callbacks, the transport handles it has opened   *)
(* and the credential directory.  The transport library and the file       *)
(* system are the environment: a live handle may deliver any               *)
(* connection.update, a handle the manager has ended may still deliver the *)
(* close notification of its teardown (the listener is never removed), and *)
(* an await may resume at any later point.  fs.unlink is taken to succeed. *)
(* Handles carry no identity beyond their relation to the manager: the one *)
(* it holds, those it has lost track of while live, and those it has ended.*)
(* Time is kept as the order in which the pending callbacks fall due.      *)
(***************************************************************************)
EXTENDS Integers, Sequences, FiniteSets, TLC

\* ---------------------------------------------------------------- bounds
MaxLeaked == 1
MaxEnded == 1
MaxPending == 2

\* ------------------------------------------------------------- constants
NoSocket == "null"
Held == "socket"
Material == {"fresh", "stale"}
NullQR == "null"
QRs == {"qr1"}
Null == <<"null">>
Undefined == <<"undefined">>
Causes == {"loggedOut", "connectionLost"}
DisconnectReason_loggedOut == "loggedOut"
CloseDelay == 3
LogoutDelay == 1
Origins == {"plain", "revoked"}
OriginOf(by) == IF by = "revoked" THEN "revoked" ELSE "plain"
Owners == {"logout", "close"}

JidIndia == <<"9","1","9","8","7","6","5","4","3","2","1","0",":","5","@","s">>
\* an identifier of ten characters or fewer that starts with '91'
JidShort == <<"9", "1", "2", "@", "s">>
\* identifiers with nothing before the '@', and with nothing before the ':'
JidNoUser == <<"@", "s">>
JidNoNumber == <<":", "5", "@", "s">>
\* a user.id that is no string: split is no function of it
NonString == <<"{}">>
NoJid == Undefined
Jids == {JidIndia, JidShort, JidNoUser, JidNoNumber, NonString}

\* -------------------------------------------------------- string helpers
IsSpace(c) == c = " "

RECURSIVE TrimStart(_)
TrimStart(s) ==
  IF s # <<>> /\ IsSpace(Head(s)) THEN TrimStart(Tail(s)) ELSE s

RECURSIVE TrimEnd(_)
TrimEnd(s) ==
  IF s # <<>> /\ IsSpace(s[Len(s)]) THEN TrimEnd(SubSeq(s, 1, Len(s) - 1)) ELSE s

Trim(s) == TrimEnd(TrimStart(s))

Includes(s, c) == \E i \in DOMAIN s : s[i] = c

StartsWith(s, p) == Len(s) >= Len(p) /\ SubSeq(s, 1, Len(p)) = p

\* a split that separates nothing: C23_IdentityReductionWhenLong fails under it
SplitHead_Whole(s, c) == s

\* s.split(c)[0]: the part of s before the first c, all of s when it has none
SplitHead(s, c) ==
  IF Includes(s, c)
  THEN SubSeq(s, 1, (CHOOSE i \in DOMAIN s : s[i] = c /\ \A j \in 1..(i - 1) : s[j] # c) - 1)
  ELSE s

Truthy(s) == s # Null /\ s # Undefined /\ s # <<>>

\* the identifier cached as it is read: C22_OpenWithoutIdentity fails under it
ExtractPhone_Unchecked(userJid, old) == userJid

\* The identity derived from socket.user.id, or `old` when nothing is assigned
ExtractPhone(userJid, old) ==
  IF ~Truthy(userJid) \/ userJid = NonString THEN old
  ELSE LET jidPart == SplitHead(userJid, "@")
       IN IF jidPart = <<>> THEN old
          ELSE LET withoutDeviceId == SplitHead(jidPart, ":")
               IN IF StartsWith(withoutDeviceId, <<"9", "1">>) /\ Len(withoutDeviceId) > 10
                  THEN SubSeq(withoutDeviceId, 3, Len(withoutDeviceId))
                  ELSE withoutDeviceId

\* ----------------------------------------------------------------- state
VARIABLES
  socket,          \* this.socket: Held (a live handle), or NoSocket
  currentQR,       \* this.currentQR
  currentStatus,   \* this.currentStatus
  isInitializing,  \* this.isInitializing
  phoneNumber,     \* this.phoneNumber
  creds,           \* the auth state the held handle was opened with
  leaked,          \* live handles the manager no longer references, by their auth state
  ended,           \* handles the manager has ended whose close notification is pending
  store,           \* the credential directory: "empty", "fresh", "stale" (pre-logout material)
  initCalls,       \* initialize() calls suspended at their awaits, by what made the call
  clearCalls,      \* clearAuthState() calls in flight, by caller and progress
  timers,          \* pending setTimeout callbacks in the order they fall due, each
                   \* with its kind ("revoked": set by a close handler after its
                   \* wipe) and its delay
  started,         \* the host has created the service and called initialize()
  lastOp,          \* the most recent step
  emitted,         \* the events that step emitted, in order
  result,          \* the result that step returned
  sent,            \* the transport sends that step made
  userId,          \* the socket.user.id that step read, if it read one
  call,            \* the argument of that step when it is a sendMessage() call (or the
                   \* deep link to be parsed), and
                   \* whether the transport's send resolves
  closeOwed,       \* close events handled minus the initialize() calls of their retries
  retryDue,        \* a close event has been handled and no handle was opened since
  mainWindow,      \* the host's window by the page it has loaded, or NoWindow
  openLink,        \* the host's stored openLink
  hasNavigatedToOpenLink,  \* the host's navigation flag
  instances,       \* the services the host has constructed
  forwarders,      \* the listeners the host has registered, by event
  forwarded        \* the status the host last sent to its window

fields == <<socket, currentQR, currentStatus, isInitializing, phoneNumber>>
transport == <<creds, leaked, ended>>
async == <<initCalls, clearCalls, timers>>
vars == <<socket, currentQR, currentStatus, isInitializing, phoneNumber, creds,
          leaked, ended, store, initCalls, clearCalls, timers, started, lastOp, emitted,
          result, sent, call, userId, closeOwed, retryDue,
          mainWindow, openLink, hasNavigatedToOpenLink, instances, forwarders, forwarded>>

host == <<mainWindow, openLink, hasNavigatedToOpenLink, instances, forwarders, forwarded>>
NoWindow == <<"none">>
IndexHtml == <<"index.html">>

NoRead == <<"none">>
NoCall == [params |-> "none", resolves |-> "none"]
NoResult == [success |-> "none", error |-> "none"]
Success == [success |-> "true", error |-> "none"]
Failure(e) == [success |-> "false", error |-> e]

StatusEv(s) == <<"status-update", s>>
QrEv(q) == <<"qr-update", q>>


RECURSIVE SumOver(_, _)
SumOver(f, S) ==
  IF S = {} THEN 0 ELSE LET x == CHOOSE y \in S : TRUE IN f[x] + SumOver(f, S \ {x})

TimerCount(ts, k) == Cardinality({i \in DOMAIN ts : ts[i].kind = k})
CloseTimersPending == TimerCount(timers, "close") + TimerCount(timers, "revoked")
TimersPending == Len(timers)
InitsInFlight == SumOver(initCalls, Origins)
Leaked == SumOver(leaked, Material)
\* the handles that have been opened and not yet ended
LiveHandles == (IF socket = Held THEN 1 ELSE 0) + Leaked
ClearsInFlight(o) == clearCalls[o]["unlink"] + clearCalls[o]["done"]
\* the suspended calls and the pending callbacks
Pending == InitsInFlight + TimersPending + ClearsInFlight("logout") + ClearsInFlight("close")

\* the fields as declared and the constructor, with nothing in flight
InitService ==
  /\ socket = NoSocket
  /\ currentQR = NullQR
  /\ currentStatus = "close"
  /\ isInitializing = FALSE
  /\ phoneNumber = Null
  /\ creds = "none"
  /\ leaked = [m \in Material |-> 0]
  /\ ended = 0
  /\ store \in {"empty", "fresh"}
  /\ initCalls = [o \in Origins |-> 0]
  /\ clearCalls = [o \in Owners |-> [p \in {"unlink", "done"} |-> 0]]
  /\ timers = <<>>
  /\ started = FALSE
  /\ lastOp = "constructor"
  /\ emitted = <<>>
  /\ result = NoResult
  /\ sent = <<>>
  /\ userId = NoRead
  /\ closeOwed = 0
  /\ retryDue = FALSE
  /\ mainWindow = NoWindow
  /\ openLink = Null
  /\ hasNavigatedToOpenLink = FALSE
  /\ instances = 0
  /\ forwarders = [e \in {"qr-update", "status-update"} |-> 0]
  /\ forwarded = "none"

Init == InitService /\ call = NoCall

\* socket.end(undefined) on the held handle, if any: it stays able to deliver
\* the close notification of its teardown, unless `closing` says that the
\* event being handled is its own close
EndSocket(n, closing) ==
  IF socket = Held /\ ~closing /\ n < MaxEnded THEN n + 1 ELSE n

\* setTimeout(() => this.initialize(), delay): the orders in which the pending
\* callbacks can fall due once this one is added.  A callback set earlier with
\* a delay that is not longer falls due first; one set earlier with a longer
\* delay falls due before or after the new one, as the time elapsed decides.
\* a setTimeout that schedules nothing: C13_LogoutPostcondition fails under it
SetTimeout_Drops(ts, k, delay) == {ts}

InsertAt(ts, i, t) == SubSeq(ts, 1, i - 1) \o <<t>> \o SubSeq(ts, i, Len(ts))
SetTimeout(ts, k, delay) ==
  {InsertAt(ts, i, [kind |-> k, delay |-> delay]) :
     i \in {j \in 1..(Len(ts) + 1) : \A n \in j..Len(ts) : ts[n].delay > delay}}

\* ------------------------------------------------------------ initialize
\* initialize() without its guard: C11_SkippedCallIsNoOp fails under it
Initialize_Unguarded(by) ==
  /\ isInitializing' = TRUE
  /\ ended' = EndSocket(ended, FALSE)
  /\ socket' = NoSocket
  /\ creds' = "none"
  /\ leaked' = leaked
  /\ initCalls' = [initCalls EXCEPT ![OriginOf(by)] = @ + 1]
  /\ lastOp' = "initialize:started"
  /\ UNCHANGED <<currentQR, currentStatus, phoneNumber>>

\* initialize() up to its first await: the guard, the flag, the cleanup of the
\* held socket.  `by` is "host" or the kind of the timer that makes the call.
Initialize(by) ==
  IF isInitializing
  THEN /\ lastOp' = IF by \in {"close", "revoked"}
                      THEN "initialize:skipped:retry" ELSE "initialize:skipped"
       /\ UNCHANGED <<fields, transport, initCalls>>
  ELSE /\ isInitializing' = TRUE
       /\ ended' = EndSocket(ended, FALSE)
       /\ socket' = NoSocket
       /\ creds' = "none"
       /\ leaked' = leaked
       /\ initCalls' = [initCalls EXCEPT ![OriginOf(by)] = @ + 1]
       /\ lastOp' = "initialize:started"
       /\ UNCHANGED <<currentQR, currentStatus, phoneNumber>>

\* handleDeeplink creates the service once and calls initialize() on it
HostInitialize ==
  /\ ~started
  /\ Pending < MaxPending
  /\ started' = TRUE
  /\ Initialize("host")
  /\ emitted' = <<>> /\ result' = NoResult /\ sent' = <<>> /\ call' = NoCall /\ userId' = NoRead /\ UNCHANGED host
  /\ UNCHANGED <<store, clearCalls, timers, closeOwed, retryDue>>

\* useMultiFileAuthState: the stored material, or new credentials kept in memory
LoadAuthState(st) == IF st = "empty" THEN "fresh" ELSE st

\* The awaits of fs.mkdir and useMultiFileAuthState resolve (nothing of the
\* session is read or written between the two), makeWASocket opens a handle
\* with the loaded state and the two listeners are registered
InitOpenSocket ==
  /\ \E o \in Origins :
       /\ initCalls[o] > 0
       /\ initCalls' = [initCalls EXCEPT ![o] = @ - 1]
       /\ lastOp' = IF o = "revoked" THEN "initialize:opened:revoked" ELSE "initialize:opened"
  \* this.socket is assigned whatever it holds
  /\ IF socket = Held
     THEN /\ Leaked < MaxLeaked
          /\ leaked' = [leaked EXCEPT ![creds] = @ + 1]
     ELSE leaked' = leaked
  /\ socket' = Held
  /\ creds' = LoadAuthState(store)
  /\ emitted' = <<>> /\ result' = NoResult /\ sent' = <<>> /\ call' = NoCall /\ userId' = NoRead /\ UNCHANGED host
  /\ retryDue' = FALSE
  /\ UNCHANGED <<currentQR, currentStatus, isInitializing, phoneNumber, ended, store,
                 clearCalls, timers, started, closeOwed>>

\* fs.mkdir, useMultiFileAuthState or makeWASocket throws: the catch block
InitFail ==
  /\ \E o \in Origins :
       /\ initCalls[o] > 0
       /\ initCalls' = [initCalls EXCEPT ![o] = @ - 1]
  /\ currentStatus' = "close"
  /\ emitted' = <<StatusEv("close")>>
  /\ isInitializing' = FALSE
  /\ lastOp' = "initialize:failed"
  /\ result' = NoResult /\ sent' = <<>> /\ call' = NoCall /\ userId' = NoRead /\ UNCHANGED host
  /\ UNCHANGED <<socket, currentQR, phoneNumber, transport, store, clearCalls, timers,
                 started, closeOwed, retryDue>>

\* ---------------------------------------------------------------- timers
\* the pending setTimeout callback that falls due first runs: it calls
\* this.initialize()
TimerFire ==
  /\ timers # <<>>
  /\ timers' = Tail(timers)
  /\ closeOwed' = IF Head(timers).kind = "logout" THEN closeOwed ELSE closeOwed - 1
  /\ Initialize(Head(timers).kind)
  /\ emitted' = <<>> /\ result' = NoResult /\ sent' = <<>> /\ call' = NoCall /\ userId' = NoRead /\ UNCHANGED host
  /\ UNCHANGED <<store, clearCalls, started, retryDue>>

\* ----------------------------------------------------- connection.update
\* The updates a handle delivers: each of the connection signal, the pairing
\* challenge and the cause of a disconnect is optional.
Updates ==
  [connection : {"none", "connecting", "open", "close"},
   qr : QRs \cup {"none"},
   lastDisconnect : Causes \cup {"none"}]

\* The handles that can deliver an update: the held one and the leaked ones
\* deliver anything, an ended one only its close notification
Sources == {"held", "ended"} \cup Material
Delivers(h, u) ==
  \/ h = "held" /\ socket = Held
  \/ h \in Material /\ leaked[h] > 0
  \/ h = "ended" /\ ended > 0 /\ u.connection = "close" /\ u.qr = "none"

\* the handle that delivers a close is over
AfterClose(h, f) == IF h \in Material THEN [f EXCEPT ![h] = @ - 1] ELSE f

\* a signal emitted and not stored: C31_StatusMatchesLastEmission fails under it
StatusAfterSignal_Keeps(u) == currentStatus

\* lines 97-101: the status assignment and its emission
StatusAfterSignal(u) == IF u.connection # "none" THEN u.connection ELSE currentStatus
EmitsOfSignal(u) == IF u.connection # "none" THEN <<StatusEv(u.connection)>> ELSE <<>>

\* a challenge emitted and not stored: C30_ChallengeMatchesLastEmission fails
\* under it
QRAfterUpdate_Keeps(u) == currentQR

\* lines 103-114: the challenge cache and its emission
QRAfterUpdate(u) ==
  IF u.qr # "none" THEN u.qr
  ELSE IF currentQR # NullQR /\ u.connection = "open" THEN NullQR ELSE currentQR
EmitsOfQR(u) ==
  IF u.qr # "none" THEN <<QrEv(u.qr)>>
  ELSE IF currentQR # NullQR /\ u.connection = "open" THEN <<QrEv(NullQR)>> ELSE <<>>

IsCloseUpdate(u) == u.connection = "close" \/ u.lastDisconnect # "none"

\* the close branch with no retry: C5_OneRetryPerClose fails under it
CloseTimers_None(ts, k) == {ts}

\* lines 146-150: what the close branch schedules; `k` tells a retry set after
\* the wipe of a loggedOut close from the others
CloseTimers(ts, k) == SetTimeout(ts, k, CloseDelay)

\* the close branch with no wipe: C8_WipeBeforeRetry fails under it
WipesOnClose_Never(u) == FALSE

\* whether the close branch wipes the credential directory first
WipesOnClose(u) == u.lastDisconnect = DisconnectReason_loggedOut

\* the close branch with no emission: C12_CloseLeavesSessionClosed fails under it
CloseEmits_None == <<>>

\* lines 129-133: what the close branch emits
CloseEmits == <<QrEv(NullQR), StatusEv("close")>>

\* lines 116-150: the close branch, up to `await this.clearAuthState()`
UpdateClose(h, u) ==
  /\ IsCloseUpdate(u)
  /\ Pending < MaxPending
  /\ ended' = EndSocket(IF h = "ended" THEN ended - 1 ELSE ended, h = "held")
  /\ leaked' = AfterClose(h, leaked)
  /\ socket' = NoSocket
  /\ creds' = "none"
  /\ currentQR' = NullQR
  /\ phoneNumber' = Null
  /\ currentStatus' = "close"
  /\ emitted' = EmitsOfSignal(u) \o EmitsOfQR(u) \o CloseEmits
  /\ isInitializing' = FALSE
  /\ closeOwed' = closeOwed + 1
  /\ retryDue' = TRUE
  /\ IF WipesOnClose(u)
     THEN /\ clearCalls' = [clearCalls EXCEPT !["close"]["unlink"] = @ + 1]
          /\ timers' = timers
     ELSE /\ timers' \in CloseTimers(timers, "close")
          /\ clearCalls' = clearCalls
  /\ lastOp' = IF u.lastDisconnect = DisconnectReason_loggedOut
               THEN "update:close:loggedOut" ELSE "update:close"
  /\ userId' = NoRead /\ UNCHANGED host

\* this.socket?.user?.id || this.socket?.user?.jid as the transport reports it
\* at the moment of the read: undefined while no socket is held or while the
\* transport has not learnt the account
UserJids == IF socket = NoSocket THEN {NoJid} ELSE {NoJid} \cup Jids

\* lines 151-185: the open branch
UpdateOpen(h, u) ==
  /\ ~IsCloseUpdate(u)
  /\ u.connection = "open"
  /\ currentStatus' = "open"
  /\ currentQR' = QRAfterUpdate(u)
  /\ \E userJid \in UserJids :
       /\ phoneNumber' = ExtractPhone(userJid, phoneNumber)
       /\ userId' = userJid /\ UNCHANGED host
  /\ emitted' = EmitsOfSignal(u) \o EmitsOfQR(u) \o <<StatusEv("open")>>
  /\ isInitializing' = FALSE
  /\ lastOp' = "update:open"
  /\ UNCHANGED <<socket, transport, clearCalls, timers, closeOwed, retryDue>>

\* neither branch: a connecting signal, a challenge, or some other update
UpdateOther(h, u) ==
  /\ ~IsCloseUpdate(u)
  /\ u.connection # "open"
  /\ currentStatus' = StatusAfterSignal(u)
  /\ currentQR' = QRAfterUpdate(u)
  /\ emitted' = EmitsOfSignal(u) \o EmitsOfQR(u)
  /\ lastOp' = "update:other"
  /\ userId' = NoRead /\ UNCHANGED host
  /\ UNCHANGED <<socket, isInitializing, phoneNumber, transport, clearCalls, timers,
                 closeOwed, retryDue>>

\* a handle's connection.update listener runs
ConnectionUpdate ==
  /\ \E h \in Sources, u \in Updates :
       /\ Delivers(h, u)
       /\ \/ UpdateClose(h, u)
          \/ UpdateOpen(h, u)
          \/ UpdateOther(h, u)
  /\ result' = NoResult /\ sent' = <<>> /\ call' = NoCall
  /\ UNCHANGED <<store, initCalls, started>>

\* clearAuthState() has unlinked the files it listed
WipeStore(o) ==
  /\ clearCalls[o]["unlink"] > 0
  /\ clearCalls' = [clearCalls EXCEPT ![o]["unlink"] = @ - 1, ![o]["done"] = @ + 1]
  /\ store' = "empty"
  \* a logout makes the material every handle still holds pre-logout material
  /\ creds' = IF o = "logout" /\ creds = "fresh" THEN "stale" ELSE creds
  /\ leaked' = IF o = "logout"
               THEN [m \in Material |-> IF m = "stale" THEN Leaked ELSE 0]
               ELSE leaked
  /\ lastOp' = "clearAuthState:wiped"
  /\ emitted' = <<>> /\ result' = NoResult /\ sent' = <<>> /\ call' = NoCall /\ userId' = NoRead /\ UNCHANGED host
  /\ UNCHANGED <<fields, ended, initCalls, timers, started, closeOwed, retryDue>>

ClearAuthState == \E o \in Owners : WipeStore(o)

\* lines 146-150: the close handler resumes after its wipe and sets the timer
UpdateCloseResume ==
  /\ clearCalls["close"]["done"] > 0
  /\ clearCalls' = [clearCalls EXCEPT !["close"]["done"] = @ - 1]
  /\ timers' \in CloseTimers(timers, "revoked")
  /\ lastOp' = "update:close:resumed"
  /\ emitted' = <<>> /\ result' = NoResult /\ sent' = <<>> /\ call' = NoCall /\ userId' = NoRead /\ UNCHANGED host
  /\ UNCHANGED <<fields, transport, store, initCalls, started, closeOwed, retryDue>>

\* the creds.update listener of a live handle: saveCreds writes its state
SaveCreds ==
  /\ \E m \in Material :
       /\ (socket = Held /\ creds = m) \/ leaked[m] > 0
       /\ store # m
       /\ store' = m
  /\ lastOp' = "creds.update"
  /\ emitted' = <<>> /\ result' = NoResult /\ sent' = <<>> /\ call' = NoCall /\ userId' = NoRead /\ UNCHANGED host
  /\ UNCHANGED <<fields, transport, initCalls, clearCalls, timers, started, closeOwed, retryDue>>

\* ------------------------------------------------- logout and disconnect
\* logout() up to `await this.clearAuthState()`
LogoutCall ==
  /\ started
  /\ Pending < MaxPending
  /\ clearCalls' = [clearCalls EXCEPT !["logout"]["unlink"] = @ + 1]
  /\ lastOp' = "logout:called"
  /\ emitted' = <<>> /\ result' = NoResult /\ sent' = <<>> /\ call' = NoCall /\ userId' = NoRead /\ UNCHANGED host
  /\ UNCHANGED <<fields, transport, store, initCalls, timers, started, closeOwed, retryDue>>

\* lines 364-386: logout() resumes after the wipe
LogoutResume ==
  /\ clearCalls["logout"]["done"] > 0
  /\ clearCalls' = [clearCalls EXCEPT !["logout"]["done"] = @ - 1]
  /\ ended' = EndSocket(ended, FALSE)
  /\ socket' = NoSocket
  /\ creds' = "none"
  /\ currentQR' = NullQR
  /\ phoneNumber' = Null
  /\ currentStatus' = "close"
  /\ isInitializing' = FALSE
  /\ emitted' = <<QrEv(NullQR), StatusEv("close")>>
  /\ timers' \in SetTimeout(timers, "logout", LogoutDelay)
  /\ result' = Success
  /\ lastOp' = "logout:done"
  /\ sent' = <<>> /\ call' = NoCall /\ userId' = NoRead /\ UNCHANGED host
  /\ UNCHANGED <<leaked, store, initCalls, started, closeOwed, retryDue>>

\* an exception that leaves the call: C21_AlwaysStructuredResult fails when
\* logout() lets one through
Raised == [success |-> "raised", error |-> "none"]
LogoutCatch_Rethrows(e) == Raised

\* lines 387-396: the catch block of logout()
LogoutCatch(e) == Failure(e)

\* lines 364-367 and 387-396: logout() resumes after the wipe and
\* `await this.socket.end(undefined)` rejects: nothing after it runs
LogoutFail ==
  /\ clearCalls["logout"]["done"] > 0
  /\ socket = Held
  /\ clearCalls' = [clearCalls EXCEPT !["logout"]["done"] = @ - 1]
  /\ result' = LogoutCatch("error.message")
  /\ lastOp' = "logout:failed"
  /\ emitted' = <<>> /\ sent' = <<>> /\ call' = NoCall /\ userId' = NoRead /\ UNCHANGED host
  /\ UNCHANGED <<fields, transport, store, initCalls, timers, started, closeOwed, retryDue>>

\* before-quit: disconnect() ends the held socket
Disconnect ==
  /\ started
  /\ ended' = EndSocket(ended, FALSE)
  /\ socket' = NoSocket
  /\ creds' = "none"
  /\ lastOp' = "disconnect"
  /\ emitted' = <<>> /\ result' = NoResult /\ sent' = <<>> /\ call' = NoCall /\ userId' = NoRead /\ UNCHANGED host
  /\ UNCHANGED <<currentQR, currentStatus, isInitializing, phoneNumber, leaked, store,
                 initCalls, clearCalls, timers, started, closeOwed, retryDue>>

\* --------------------------------------------------------------- getters
Returned(v) == [success |-> "none", error |-> "none", value |-> v]

\* getQR() and getStatus(): the cached challenge and the status
GetQR ==
  /\ started
  /\ result' = Returned(currentQR)
  /\ lastOp' = "getQR"
  /\ emitted' = <<>> /\ sent' = <<>> /\ call' = NoCall /\ userId' = NoRead /\ UNCHANGED host
  /\ UNCHANGED <<fields, transport, store, async, started, closeOwed, retryDue>>

GetStatus ==
  /\ started
  /\ result' = Returned(currentStatus)
  /\ lastOp' = "getStatus"
  /\ emitted' = <<>> /\ sent' = <<>> /\ call' = NoCall /\ userId' = NoRead /\ UNCHANGED host
  /\ UNCHANGED <<fields, transport, store, async, started, closeOwed, retryDue>>

\* lines 210-236: the identity derived from the held socket while open
PhoneFallback(userJid) ==
  IF socket # NoSocket /\ currentStatus = "open"
  THEN ExtractPhone(userJid, Null)
  ELSE Null

\* getPhoneNumber(): the cached identity, or the one derived from the socket
GetPhoneNumber ==
  /\ started
  /\ IF Truthy(phoneNumber)
     THEN /\ result' = Returned(phoneNumber)
          /\ phoneNumber' = phoneNumber
          /\ userId' = NoRead /\ UNCHANGED host
     ELSE IF socket = NoSocket \/ currentStatus # "open"
     THEN /\ result' = Returned(Null)
          /\ phoneNumber' = phoneNumber
          /\ userId' = NoRead /\ UNCHANGED host
     ELSE \E userJid \in UserJids :
            /\ userId' = userJid /\ UNCHANGED host
            /\ IF Truthy(PhoneFallback(userJid))
               THEN /\ result' = Returned(PhoneFallback(userJid))
                    /\ phoneNumber' = PhoneFallback(userJid)
               ELSE /\ result' = Returned(Null)
                    /\ phoneNumber' = phoneNumber
  /\ lastOp' = "getPhoneNumber"
  /\ emitted' = <<>> /\ sent' = <<>> /\ call' = NoCall
  /\ UNCHANGED <<socket, currentQR, currentStatus, isInitializing, transport, store, async,
                 started, closeOwed, retryDue>>

\* ----------------------------------------------------------- sendMessage
UpperCase == <<"A", "E", "G", "I", "M", "P">>
LowerCase == <<"a", "e", "g", "i", "m", "p">>
LowerChar(c) ==
  IF \E i \in DOMAIN UpperCase : UpperCase[i] = c
  THEN LowerCase[CHOOSE i \in DOMAIN UpperCase : UpperCase[i] = c]
  ELSE c
\* the MIME type compared as given: C19_AttachmentShape fails under it
ToLowerCase_Identity(s) == s

ToLowerCase(s) == [i \in DOMAIN s |-> LowerChar(s[i])]

ImagePrefix == <<"i", "m", "a", "g", "e", "/">>
DomainSuffix == <<"@", "s", ".", "w">>

NoDocument == [data |-> "none", mimeType |-> Undefined, filename |-> "none"]
Phones == {<<" ">>, <<" ", "1", " ">>, <<"1", "@", "g">>, <<"1", "@">>}
Messages == {Undefined, <<>>, <<" ">>, <<"h", "i", " ">>}
Documents ==
  {NoDocument,
   [data |-> "base64", mimeType |-> <<"I", "m", "a", "g", "e", "/", "p">>, filename |-> "a.png"],
   [data |-> "base64", mimeType |-> <<"a", "/", "P">>, filename |-> "a.pdf"],
   [data |-> "undefined", mimeType |-> <<"a", "/", "p">>, filename |-> "b.pdf"]}
SendParams == [phone : Phones, message : Messages, document : Documents]

ErrNotConnected == "WhatsApp is not connected. Please wait for connection."
ErrNoSocket == "WhatsApp socket is not available."
ErrNoPhone == "Phone number is required."
ErrNoText == "Message text is required."
ErrThrown == "error.message"

\* the connection check without its socket test: C3_NotConnectedNeverSends
\* fails under it
ConnectionError_StatusOnly ==
  IF currentStatus # "open" THEN ErrNotConnected ELSE "none"

\* lines 247-260: the connection check; the error it returns, or "none"
ConnectionError ==
  IF currentStatus # "open" THEN ErrNotConnected
  ELSE IF socket = NoSocket THEN ErrNoSocket
  ELSE "none"

\* lines 271-274
FormatJid(phone) == IF Includes(phone, "@") THEN phone ELSE phone \o DomainSuffix

\* the text passed on as it is: C34_AttachmentWithoutCaption fails under it
Caption_AsGiven(message) == message

\* params.message || undefined
Caption(message) == IF Truthy(message) THEN message ELSE Undefined

\* lines 276-313: Buffer.from throws on data that is no string
DocumentThrows(doc) == doc.data = "undefined" \/ doc.mimeType = Undefined

DocumentPayload(jid, p) ==
  IF StartsWith(ToLowerCase(p.document.mimeType), ImagePrefix)
  THEN [jid |-> jid, kind |-> "image", text |-> Caption(p.message),
        mimetype |-> p.document.mimeType, fileName |-> "none"]
  ELSE [jid |-> jid, kind |-> "document", text |-> Caption(p.message),
        mimetype |-> p.document.mimeType, fileName |-> p.document.filename]

\* the text sent as given: C18_TextOnlyMessage fails under it
TextPayload_Untrimmed(jid, p) ==
  [jid |-> jid, kind |-> "text", text |-> p.message, mimetype |-> Undefined,
   fileName |-> "none"]

TextPayload(jid, p) ==
  [jid |-> jid, kind |-> "text", text |-> Trim(p.message), mimetype |-> Undefined,
   fileName |-> "none"]

\* the target taken as given: C17_EmptyTargetIsInvalid fails under it
TargetOf_Untrimmed(p) == p.phone

\* line 263: const phoneNumber = params.phone.trim()
TargetOf(p) == Trim(p.phone)

\* a dispatch repeated after a rejection: C20_OneDispatchPerCall fails under it
Dispatch_Retry(payload, ok) ==
  [result |-> IF ok THEN Success ELSE Failure(ErrThrown),
   sent |-> IF ok THEN <<payload>> ELSE <<payload, payload>>]

\* lines 286-312 and 324-336: one awaited socket.sendMessage, whose rejection
\* is caught and returned
Dispatch(payload, ok) ==
  [result |-> IF ok THEN Success ELSE Failure(ErrThrown), sent |-> <<payload>>]

\* sendMessage(p); `ok` is whether the transport's send resolves
SendOutcome(p, ok) ==
  IF ConnectionError # "none"
  THEN [result |-> Failure(ConnectionError), sent |-> <<>>]
  ELSE IF TargetOf(p) = <<>>
  THEN [result |-> Failure(ErrNoPhone), sent |-> <<>>]
  ELSE LET jid == FormatJid(TargetOf(p))
       IN IF p.document # NoDocument
          THEN IF DocumentThrows(p.document)
               THEN [result |-> Failure(ErrThrown), sent |-> <<>>]
               ELSE Dispatch(DocumentPayload(jid, p), ok)
          ELSE IF ~Truthy(p.message) \/ Trim(p.message) = <<>>
          THEN [result |-> Failure(ErrNoText), sent |-> <<>>]
          ELSE Dispatch(TextPayload(jid, p), ok)

\* a sendMessage() that gives up the socket: C32_SendLeavesSessionAlone fails
\* under it
SendMessage_DropsSocket ==
  /\ started
  /\ \E p \in SendParams, ok \in BOOLEAN :
       /\ result' = SendOutcome(p, ok).result
       /\ sent' = SendOutcome(p, ok).sent
       /\ call' = [params |-> p, resolves |-> ok]
  /\ userId' = NoRead /\ UNCHANGED host
  /\ lastOp' = "sendMessage"
  /\ emitted' = <<>>
  /\ socket' = NoSocket
  /\ UNCHANGED <<currentQR, currentStatus, isInitializing, phoneNumber, transport, store,
                 async, started, closeOwed, retryDue>>

SendMessage ==
  /\ started
  /\ \E p \in SendParams, ok \in BOOLEAN :
       /\ result' = SendOutcome(p, ok).result
       /\ sent' = SendOutcome(p, ok).sent
       /\ call' = [params |-> p, resolves |-> ok]
  /\ userId' = NoRead /\ UNCHANGED host
  /\ lastOp' = "sendMessage"
  /\ emitted' = <<>>
  /\ UNCHANGED <<fields, transport, store, async, started, closeOwed, retryDue>>

\* --------------------------------------------------------- parseDeeplink
\* A deep link is a string of tokens: Scheme stands for 'iris://', OpenLink
\* for the letters 'openLink', "m" for the parameter name 'message', "k" for
\* any other letter, "%" for the escape '%26' of '&'; the rest are the
\* characters themselves.
Scheme == "S"
OpenLink == "O"
Escape == "%"
UrlParamNames == {<<"m">>}

\* s.indexOf(c), counted from 1; 0 when c is not in s
IndexOf(s, c) ==
  IF Includes(s, c) THEN CHOOSE i \in DOMAIN s : s[i] = c /\ \A j \in 1..(i - 1) : s[j] # c
  ELSE 0

\* s.substring(i), counted from 1
Substring(s, i) == SubSeq(s, i, Len(s))

\* s.split(c)
RECURSIVE Split(_, _)
Split(s, c) ==
  IF Includes(s, c)
  THEN <<SplitHead(s, c)>> \o Split(Substring(s, IndexOf(s, c) + 1), c)
  ELSE <<s>>

\* parts.join(c)
RECURSIVE Join(_, _)
Join(parts, c) ==
  IF parts = <<>> THEN <<>>
  ELSE IF Len(parts) = 1 THEN parts[1]
  ELSE parts[1] \o <<c>> \o Join(Tail(parts), c)

\* the decoding of a form-urlencoded name or value: '+' is a space and an
\* escape is the character it stands for
FormDecode(s) ==
  [i \in DOMAIN s |-> IF s[i] = "+" THEN " " ELSE IF s[i] = Escape THEN "&" ELSE s[i]]

\* a '%' that no two hexadecimal digits follow
BadEscape == "!"

\* decodeURIComponent throws URIError on a malformed escape
Malformed(s) == Includes(s, BadEscape)

\* decodeURIComponent: an escape is the character it stands for
DecodeURIComponent(s) == [i \in DOMAIN s |-> IF s[i] = Escape THEN "&" ELSE s[i]]

\* lines 633-638: the decoded text, or the text as it is when decoding throws
DecodeOrRaw(remaining) ==
  IF Malformed(remaining) THEN remaining ELSE DecodeURIComponent(remaining)

\* new URL(url) throws on a string without scheme
IsUrl(url) == url # <<>> /\ url[1] = Scheme

\* urlObj.search without its '?': the fragment starts at the first '#', the
\* query at the first '?' before it
SearchOf(url) ==
  LET beforeHash == SplitHead(Tail(url), "#")
  IN IF Includes(beforeHash, "?")
     THEN Substring(beforeHash, IndexOf(beforeHash, "?") + 1)
     ELSE <<>>

\* urlObj.searchParams.entries(): the non-empty pieces between '&', each
\* split at its first '=' and decoded
SearchParams(url) ==
  LET pieces == SelectSeq(Split(SearchOf(url), "&"), LAMBDA x : x # <<>>)
  IN [i \in DOMAIN pieces |->
        [key |-> FormDecode(SplitHead(pieces[i], "=")),
         value |-> IF Includes(pieces[i], "=")
                   THEN FormDecode(Substring(pieces[i], IndexOf(pieces[i], "=") + 1))
                   ELSE <<>>]]

\* allParams.findIndex(([key]) => key === 'openLink'); 0 when there is none
FindOpenLink(allParams) ==
  IF \E i \in DOMAIN allParams : allParams[i].key = <<OpenLink>>
  THEN CHOOSE i \in DOMAIN allParams :
         /\ allParams[i].key = <<OpenLink>>
         /\ \A j \in 1..(i - 1) : allParams[j].key # <<OpenLink>>
  ELSE 0

\* lines 601-608: the value followed by key=value of every later parameter
\* that has a value
Reconstruct(openLinkParam, later) ==
  LET kept == SelectSeq(later, LAMBDA e : e.value # <<>>)
  IN Join(<<openLinkParam>> \o [i \in DOMAIN kept |-> kept[i].key \o <<"=">> \o kept[i].value],
          "&")

\* lines 567-613: the value of openLink as the URL parser gives it, rebuilt
\* from the parameters after it
Structured(url) ==
  LET allParams == SearchParams(url)
      at == FindOpenLink(allParams)
      openLinkParam == allParams[at].value
      later == SubSeq(allParams, at + 1, Len(allParams))
      looksLikeUrlParams == \E i \in DOMAIN later : later[i].key \in UrlParamNames
  IN IF Len(allParams) > 1 /\ at < Len(allParams)
        /\ (~Includes(openLinkParam, "&") \/ looksLikeUrlParams)
     THEN Reconstruct(openLinkParam, later)
     ELSE openLinkParam

\* queryString.indexOf('openLink='), counted from 1; 0 when it is not there
IndexOfOpenLinkEq(s) ==
  IF \E i \in 1..(Len(s) - 1) : s[i] = OpenLink /\ s[i + 1] = "="
  THEN CHOOSE i \in 1..(Len(s) - 1) :
         /\ s[i] = OpenLink /\ s[i + 1] = "="
         /\ \A j \in 1..(i - 1) : ~(s[j] = OpenLink /\ s[j + 1] = "=")
  ELSE 0

\* lines 616-638: the manual extraction from the text after the first '?'
Fallback(url) ==
  IF ~Includes(url, "?") THEN Null
  ELSE LET queryString == Substring(url, IndexOf(url, "?") + 1)
       IN IF IndexOfOpenLinkEq(queryString) = 0 THEN Null
          ELSE DecodeOrRaw(Substring(queryString, IndexOfOpenLinkEq(queryString) + 2))

\* parseDeeplink(url)
ParseDeeplink(url) ==
  IF ~IsUrl(url) THEN Null
  ELSE IF FindOpenLink(SearchParams(url)) # 0
          /\ SearchParams(url)[FindOpenLink(SearchParams(url))].value # <<>>
  THEN Structured(url)
  ELSE Fallback(url)

\* the deep links tried: with and without scheme, every string of up to
\* MaxBodyLen of the characters that structure a link, and links that embed
\* a URL with a query of its own
MaxBodyLen == 4
BodyChars == {OpenLink, "k", "=", "&", "?", "#"}
Bodies == UNION {[1..n -> BodyChars] : n \in 0..MaxBodyLen}
ShortUrls == Bodies \cup {<<Scheme>> \o b : b \in Bodies}
EmbeddedUrls ==
  {<<"k", "?", "k", "=", "k">>, <<"k", "?", "m", "=", "k", "+", "k">>,
   <<"k", "?", "k", "=", Escape>>, <<"k", "?", "k", "#", "k">>, <<"k", "?">>}
LaterParams ==
  {<<"k", "=", "k">>, <<"m", "=", "k">>, <<"k", "=", "k", "=", "k">>,
   <<"k", "=", "k", "&", "m", "=", "k">>, <<OpenLink, "=", "k">>,
   <<"k", "=">>, <<"k", "=", "&", "m", "=", "k">>, <<"k">>}
EmbeddingUrls ==
  {<<Scheme, "?", OpenLink, "=">> \o v \o <<"&">> \o l : v \in EmbeddedUrls, l \in LaterParams}
NamesEndingInOpenLink ==
  {<<Scheme, "?", "k", OpenLink, "=", "k">>,
   <<Scheme, "?", "k", "=", "k", "&", "k", OpenLink, "=", "k">>,
   <<Scheme, "k", "#", "?", OpenLink, "=", "k">>}
PrecededUrls ==
  {<<Scheme, "?", "k", "=", "k", "&", OpenLink, "=", "k", "&", "m", "=", "k">>,
   <<Scheme, "?", "k", "=", "k", "&", OpenLink, "=", "k">>}
EscapedUrls ==
  {<<Scheme, "?", OpenLink, "=", "&", OpenLink, "=", "k", Escape, "k">>,
   <<Scheme, "?", OpenLink, "=", "&", OpenLink, "=", Escape, BadEscape>>,
   <<Scheme, "?", OpenLink, "=", BadEscape, "k">>,
   <<"?", OpenLink, "=", "k", Escape>>}
Urls ==
  ShortUrls \cup EmbeddingUrls \cup NamesEndingInOpenLink \cup PrecededUrls \cup EscapedUrls

\* the application has been started with a deep link, not yet handled
DeeplinkInit ==
  /\ InitService
  /\ call \in {[params |-> url, resolves |-> "deeplink"] : url \in Urls}

\* lines 648-649: handleDeeplink calls parseDeeplink(url)
ParseDeeplinkCall ==
  /\ lastOp = "constructor"
  /\ call.resolves = "deeplink"
  /\ result' = Returned(ParseDeeplink(call.params))
  /\ lastOp' = "parseDeeplink"
  /\ UNCHANGED <<fields, transport, store, async, started, emitted, sent, call, userId,
                 closeOwed, retryDue, host>>

\* ------------------------------------------------------------------ host
\* The host process around the service: its window, its stored openLink, its
\* navigation flag, and handleDeeplink.  The service is seen through the
\* status it holds and the status-update events it emits; a window that is
\* closed leaves the process alive, as on macOS.

\* the deep links that reach the host: two with different openLink values,
\* and three from which parseDeeplink extracts nothing
HostUrls ==
  {<<Scheme, "?", OpenLink, "=", "k">>, <<Scheme, "?", OpenLink, "=", "m">>,
   <<Scheme>>, <<Scheme, "?", OpenLink, "=">>, <<Scheme, "?", "k", "=", "k">>}
NoUrl == <<>>
Statuses == {"connecting", "open", "close"}
DeeplinkCall(url) == [params |-> url, resolves |-> "deeplink"]

\* createWindow(): a new window that loads index.html
CreateWindow == IndexHtml

\* `if (!whatsappService)` taken at every deep link: C37_OneServiceOnly fails
\* under it
ServiceMissing_Always == TRUE

\* `if (!whatsappService)`
ServiceMissing == ~started

\* mainWindow.loadURL(resolveHtmlPath('index.html')) of the status forwarder
BackToIndex(window) == IndexHtml

\* handleDeeplink(url), given the window the caller left
HandleDeeplink(url, window) ==
  LET extractedOpenLink == ParseDeeplink(url)
      shown == IF window = NoWindow THEN CreateWindow ELSE window
      reset == IF openLink # extractedOpenLink THEN FALSE ELSE hasNavigatedToOpenLink
  IN IF ~Truthy(extractedOpenLink)
     THEN /\ mainWindow' = window
          /\ lastOp' = "handleDeeplink:ignored"
          /\ UNCHANGED <<openLink, hasNavigatedToOpenLink, instances, forwarders, started,
                         fields, transport, initCalls>>
     ELSE /\ openLink' = extractedOpenLink
          /\ IF ServiceMissing
             THEN /\ started' = TRUE
                  /\ instances' = instances + 1
                  /\ Initialize("host")
                  /\ forwarders' = [e \in DOMAIN forwarders |-> forwarders[e] + 1]
                  /\ mainWindow' = shown
                  /\ hasNavigatedToOpenLink' = reset
             ELSE /\ lastOp' = "handleDeeplink"
                  /\ IF currentStatus = "open"
                     THEN /\ mainWindow' = extractedOpenLink
                          /\ hasNavigatedToOpenLink' = TRUE
                     ELSE /\ mainWindow' = shown
                          /\ hasNavigatedToOpenLink' = reset
                  /\ UNCHANGED <<instances, forwarders, started, fields, transport, initCalls>>

\* what every step of the host leaves alone
HostStep ==
  /\ emitted' = <<>> /\ result' = NoResult /\ sent' = <<>> /\ userId' = NoRead
  /\ UNCHANGED <<store, clearCalls, timers, closeOwed, retryDue, forwarded>>

\* app.whenReady(): the window is created, and the deep link of the launch
\* arguments, if there is one, is handled
WhenReady ==
  /\ lastOp = "constructor"
  /\ \E url \in HostUrls \cup {NoUrl} :
       IF url = NoUrl
       THEN /\ mainWindow' = CreateWindow
            /\ lastOp' = "whenReady"
            /\ call' = NoCall
            /\ UNCHANGED <<openLink, hasNavigatedToOpenLink, instances, forwarders, started,
                           fields, transport, initCalls>>
       ELSE /\ HandleDeeplink(url, CreateWindow)
            /\ call' = DeeplinkCall(url)
  /\ HostStep

\* 'open-url' of a running application
OpenUrl ==
  /\ lastOp # "constructor"
  /\ \E url \in HostUrls :
       /\ HandleDeeplink(url, mainWindow)
       /\ call' = DeeplinkCall(url)
  /\ HostStep

\* 'second-instance': the window is focused, and the iris:// argument of the
\* command line, if there is one, is handled
SecondInstance ==
  /\ lastOp # "constructor"
  /\ \E url \in HostUrls \cup {NoUrl} :
       IF url = NoUrl
       THEN /\ lastOp' = "second-instance"
            /\ call' = NoCall
            /\ UNCHANGED <<mainWindow, openLink, hasNavigatedToOpenLink, instances, forwarders,
                           started, fields, transport, initCalls>>
       ELSE /\ HandleDeeplink(url, mainWindow)
            /\ call' = DeeplinkCall(url)
  /\ HostStep

\* the 'closed' event of the window
WindowClosed ==
  /\ mainWindow # NoWindow
  /\ mainWindow' = NoWindow
  /\ lastOp' = "closed"
  /\ emitted' = <<>> /\ result' = NoResult /\ sent' = <<>> /\ userId' = NoRead /\ call' = NoCall
  /\ UNCHANGED <<fields, transport, store, async, started, closeOwed, retryDue,
                 openLink, hasNavigatedToOpenLink, instances, forwarders, forwarded>>

\* 'activate' with no window
Activate ==
  /\ lastOp # "constructor"
  /\ mainWindow = NoWindow
  /\ mainWindow' = CreateWindow
  /\ lastOp' = "activate"
  /\ emitted' = <<>> /\ result' = NoResult /\ sent' = <<>> /\ userId' = NoRead /\ call' = NoCall
  /\ UNCHANGED <<fields, transport, store, async, started, closeOwed, retryDue,
                 openLink, hasNavigatedToOpenLink, instances, forwarders, forwarded>>

\* The service sets its status and emits status-update, and the forwarder the
\* host registered on it runs
StatusUpdate ==
  /\ forwarders["status-update"] > 0
  /\ \E status \in Statuses :
       /\ currentStatus' = status
       /\ emitted' = <<StatusEv(status)>>
       /\ IF mainWindow = NoWindow
          THEN UNCHANGED <<mainWindow, hasNavigatedToOpenLink, forwarded>>
          ELSE /\ forwarded' = status
               /\ IF status = "open" /\ Truthy(openLink)
                  THEN /\ mainWindow' = openLink
                       /\ hasNavigatedToOpenLink' = TRUE
                  ELSE IF status = "close" /\ hasNavigatedToOpenLink
                  THEN /\ hasNavigatedToOpenLink' = FALSE
                       /\ mainWindow' = BackToIndex(mainWindow)
                  ELSE UNCHANGED <<mainWindow, hasNavigatedToOpenLink>>
  /\ lastOp' = "status-update"
  /\ result' = NoResult /\ sent' = <<>> /\ userId' = NoRead /\ call' = NoCall
  /\ UNCHANGED <<socket, currentQR, isInitializing, phoneNumber, transport, store, async,
                 started, closeOwed, retryDue, openLink, instances, forwarders>>

\* ------------------------------------------------------------------ spec
Next ==
  \/ HostInitialize
  \/ InitOpenSocket
  \/ InitFail
  \/ TimerFire
  \/ ConnectionUpdate
  \/ ClearAuthState
  \/ UpdateCloseResume
  \/ SaveCreds
  \/ LogoutCall
  \/ LogoutResume
  \/ LogoutFail
  \/ Disconnect
  \/ GetQR
  \/ GetStatus
  \/ GetPhoneNumber

Spec == Init /\ [][Next]_vars

\* The session from its start to its first close, with the sendMessage() calls
\* the host makes on it: sendMessage() reads the status and the socket, which
\* take every combination here (disconnect() drops the socket and leaves the
\* status), and its argument ranges over SendParams.
NextSend ==
  \/ HostInitialize
  \/ InitOpenSocket
  \/ ConnectionUpdate
  \/ Disconnect
  \/ SendMessage

SendSpec == Init /\ [][NextSend]_vars

\* The two calls of the host that return a result, sendMessage() and logout(),
\* in the states the session reaches without its timers running out
NextResult ==
  \/ HostInitialize
  \/ InitOpenSocket
  \/ ConnectionUpdate
  \/ ClearAuthState
  \/ LogoutCall
  \/ LogoutResume
  \/ LogoutFail
  \/ SendMessage

ResultSpec == Init /\ [][NextResult]_vars

\* parseDeeplink applied to each deep link of Urls
NextDeeplink == ParseDeeplinkCall

DeeplinkSpec == DeeplinkInit /\ [][NextDeeplink]_vars

\* The host from the start of the process: deep links, window events, and the
\* status updates of the service it created
NextHost ==
  \/ WhenReady
  \/ OpenUrl
  \/ SecondInstance
  \/ WindowClosed
  \/ Activate
  \/ StatusUpdate

HostSpec == Init /\ [][NextHost]_vars

\* ---------------------------------------------------------------- claims

\* C1: in every reachable state at most one transport handle that has been
\* opened and not yet ended exists.
C1_AtMostOneLiveHandle == LiveHandles <= 1

\* C2: the cached pairing challenge and the cached identity are never both
\* non-null.
C2_ChallengeXorIdentity == ~(currentQR # NullQR /\ phoneNumber # Null)

\* C3: sendMessage() called while status is not open, or while no handle is
\* held, returns a not-connected failure and never invokes the transport send.
C3_NotConnectedNeverSends ==
  (lastOp = "sendMessage" /\ (currentStatus # "open" \/ socket = NoSocket))
    => /\ result.success = "false"
       /\ result.error \in {ErrNotConnected, ErrNoSocket}
       /\ sent = <<>>

\* C3 happens: a send was refused while status read open but no handle was held
C3_Witness ==
  /\ lastOp = "sendMessage"
  /\ currentStatus = "open"
  /\ socket = NoSocket
  /\ result = Failure(ErrNoSocket)

\* C4: a handle opened after a logout is never opened with material that was
\* in use before that logout's wipe.
C4_NoPreLogoutMaterial ==
  lastOp \in {"initialize:opened", "initialize:opened:revoked"} => creds # "stale"

\* C5 (as claimed): every close event gets exactly one retry, and the guard
\* is clear whenever a close handler's retry calls initialize().
C5_RetryNeverSkipped ==
  [][(Len(timers') < Len(timers) /\ Head(timers).kind \in {"close", "revoked"})
       => ~isInitializing]_vars

\* C5 (amended): every close event handled gets exactly one retry: each is
\* either still in its handler's wipe, or a pending timer, or has made its one
\* initialize() call (which the guard may skip).
C5_OneRetryPerClose == closeOwed = CloseTimersPending + ClearsInFlight("close")

\* C5 happens: the one retry of the only close event handled so far has
\* called initialize() and the guard, set by another attempt, has skipped it
C5_Witness ==
  /\ lastOp = "initialize:skipped:retry"
  /\ closeOwed = 0
  /\ retryDue

\* no step can follow without a call from the host: nothing is in flight, no
\* timer is pending and no handle is left to deliver an event
Quiescent ==
  /\ TimersPending = 0
  /\ InitsInFlight = 0
  /\ ClearsInFlight("close") = 0 /\ ClearsInFlight("logout") = 0
  /\ socket = NoSocket /\ Leaked = 0 /\ ended = 0

\* C6: after a transport close the session never stays closed with no handle,
\* no pending retry and no initialization in flight.
C6_NeverStuckClosed ==
  ~(retryDue /\ currentStatus = "close" /\ Quiescent)

\* C7: a failed initialize() is handled like a close: status close, guard
\* clear, challenge and identity null, and a retry scheduled.
C7_FailureSchedulesRetry ==
  lastOp = "initialize:failed"
    => /\ currentStatus = "close"
       /\ ~isInitializing
       /\ currentQR = NullQR
       /\ phoneNumber = Null
       /\ TimersPending > 0

C9_OpenSupersedesRetry ==
  [][(/\ Len(timers') < Len(timers)
      /\ currentStatus = "open"
      /\ socket # NoSocket)
       => /\ socket' = socket
          /\ currentStatus' = "open"]_vars

\* C10: while an initialize() call is suspended at an await the guard stays
\* set.
C10_GuardHeldWhileInFlight == InitsInFlight > 0 => isInitializing

\* C11: initialize() called while isInitializing is true opens no handle, does
\* not end the held one, emits nothing and leaves status, challenge, identity
\* and the guard as they were.
C11_SkippedCallIsNoOp ==
  [][(Len(timers') < Len(timers) /\ isInitializing)
       => /\ UNCHANGED <<socket, currentQR, currentStatus, isInitializing, phoneNumber>>
          /\ UNCHANGED <<creds, leaked, ended, store>>
          /\ initCalls' = initCalls
          /\ emitted' = <<>>]_vars

\* C11 happens: a timer's initialize() was skipped while a handle showing a
\* challenge was held
C11_Witness ==
  /\ lastOp \in {"initialize:skipped", "initialize:skipped:retry"}
  /\ isInitializing
  /\ socket = Held
  /\ currentQR # NullQR

\* e is among the events the last step emitted
Emitted(e) == \E i \in DOMAIN emitted : emitted[i] = e

\* C12: once a transport close event has been processed, status is close, no
\* handle is held, challenge and identity are null, the guard is clear, and
\* status-update(close) and qr-update(null) have been emitted.
C12_CloseLeavesSessionClosed ==
  lastOp \in {"update:close", "update:close:loggedOut"}
    => /\ currentStatus = "close"
       /\ socket = NoSocket
       /\ currentQR = NullQR
       /\ phoneNumber = Null
       /\ ~isInitializing
       /\ Emitted(StatusEv("close"))
       /\ Emitted(QrEv(NullQR))

\* C12 happens: a close event with a cause has been processed and its retry is
\* pending
C12_Witness ==
  /\ lastOp = "update:close"
  /\ currentStatus = "close"
  /\ socket = NoSocket
  /\ TimerCount(timers, "close") = 1

C14_IdentityOnlyWhenOpen == phoneNumber # Null => currentStatus = "open"

\* C15: the cached pairing challenge is non-null only while status is
\* connecting.
C15_ChallengeOnlyWhenConnecting == currentQR # NullQR => currentStatus = "connecting"

\* C16: once initialize(), called with no attempt in flight, has opened its
\* handle and before any event of that handle is processed, the guard is set,
\* the handle is held and status is connecting.
C16_InitializeMovesToConnecting ==
  lastOp \in {"initialize:opened", "initialize:opened:revoked"}
    => /\ isInitializing
       /\ socket = Held
       /\ currentStatus = "connecting"

\* ------------------------------------------------------------- C17 .. C20
\* a string with nothing but white space in it
Blank(s) == \A i \in DOMAIN s : s[i] = " "

\* the state a sendMessage() call returned in, having passed the connection
\* check
SentWhileOpen ==
  /\ lastOp = "sendMessage"
  /\ currentStatus = "open"
  /\ socket = Held

\* C17: with status open and a handle held, a sendMessage() whose target is
\* empty after trimming returns the "Phone number is required." failure and
\* makes no transport send, whatever its text and attachment are.
C17_EmptyTargetIsInvalid ==
  (SentWhileOpen /\ Blank(call.params.phone))
    => /\ result = Failure(ErrNoPhone)
       /\ sent = <<>>

\* a call with a blank target, a text and a sendable attachment was refused
C17_Witness ==
  /\ SentWhileOpen
  /\ Blank(call.params.phone)
  /\ call.params.phone # <<>>
  /\ Truthy(call.params.message)
  /\ call.params.document # NoDocument
  /\ ~DocumentThrows(call.params.document)
  /\ result = Failure(ErrNoPhone)
  /\ sent = <<>>

\* t is s without its leading and trailing white space
IsTrimOf(t, s) ==
  /\ t # <<>> => ~IsSpace(t[1]) /\ ~IsSpace(t[Len(t)])
  /\ \E i \in 0..Len(s) :
       /\ i + Len(t) <= Len(s)
       /\ SubSeq(s, i + 1, i + Len(t)) = t
       /\ Blank(SubSeq(s, 1, i))
       /\ Blank(SubSeq(s, i + Len(t) + 1, Len(s)))

\* the text of the call is missing or empty after trimming
NoText == ~Truthy(call.params.message) \/ Blank(call.params.message)

\* C18: with status open, a handle held and a non-empty target, a
\* sendMessage() without attachment returns the "Message text is required."
\* failure and makes no transport send when its text is missing or empty
\* after trimming, and otherwise makes exactly one send, of a plain text
\* message that carries the trimmed text.
C18_TextOnlyMessage ==
  (SentWhileOpen /\ ~Blank(call.params.phone) /\ call.params.document = NoDocument)
    => IF NoText
       THEN result = Failure(ErrNoText) /\ sent = <<>>
       ELSE /\ Len(sent) = 1
            /\ sent[1].kind = "text"
            /\ IsTrimOf(sent[1].text, call.params.message)

\* a text with trailing white space went out trimmed, in one send
C18_Witness ==
  /\ SentWhileOpen
  /\ ~Blank(call.params.phone)
  /\ call.params.document = NoDocument
  /\ ~NoText
  /\ Len(sent) = 1
  /\ sent[1].kind = "text"
  /\ sent[1].text # call.params.message
  /\ result = Success

ImagePrefixUpper == <<"I", "M", "A", "G", "E", "/">>

\* m starts with 'image/', in any mix of cases
IsImageMime(m) ==
  /\ Len(m) >= Len(ImagePrefix)
  /\ \A i \in DOMAIN ImagePrefix : m[i] \in {ImagePrefix[i], ImagePrefixUpper[i]}

\* the caption a text gives: the text itself, and none for no text
CaptionOfCall ==
  IF call.params.message \in {Undefined, <<>>} THEN Undefined ELSE call.params.message

\* C19: every attachment sent while open goes out in exactly one send, as an
\* image message with the text as caption when its MIME type starts with
\* 'image/' in any case, and otherwise as a document message with the same
\* caption, the given filename and the MIME type unchanged.
C19_AttachmentShape ==
  (SentWhileOpen /\ call.params.document # NoDocument /\ sent # <<>>)
    => /\ Len(sent) = 1
       /\ sent[1].text = CaptionOfCall
       /\ IF IsImageMime(call.params.document.mimeType)
          THEN sent[1].kind = "image"
          ELSE /\ sent[1].kind = "document"
               /\ sent[1].fileName = call.params.document.filename
               /\ sent[1].mimetype = call.params.document.mimeType

\* an attachment of type 'Image/p' went out as an image with its caption
C19_Witness ==
  /\ SentWhileOpen
  /\ call.params.document # NoDocument
  /\ IsImageMime(call.params.document.mimeType)
  /\ call.params.document.mimeType[1] = "I"
  /\ Len(sent) = 1
  /\ sent[1].kind = "image"
  /\ sent[1].text = call.params.message
  /\ Truthy(call.params.message)

\* the attachment of the call decodes: its data and MIME type are strings
Decodable(doc) == doc.data = "base64" /\ doc.mimeType # Undefined

\* the call passed the connection check with a non-empty target
Addressed == SentWhileOpen /\ ~Blank(call.params.phone)

\* a dispatch that the transport rejected is returned as a failure
FailureIsReturned ==
  (Len(sent) = 1 /\ ~call.resolves) => result = Failure(ErrThrown)

\* C20 as stated: each sendMessage() makes at most one transport send, and
\* exactly one when status is open, a handle is held, the target is non-empty
\* and an attachment is present or the text is non-empty; a failed dispatch
\* is returned as {success:false, error} and not repeated.
C20_OneSendWheneverAttached ==
  lastOp = "sendMessage"
    => /\ Len(sent) <= 1
       /\ (Addressed /\ (call.params.document # NoDocument \/ ~NoText))
            => Len(sent) = 1
       /\ FailureIsReturned

\* C20 amended: each sendMessage() makes at most one transport send; with
\* status open, a handle held and a non-empty target it makes exactly one
\* when its attachment decodes or, without attachment, its text is non-empty
\* after trimming, and none (returning a failure) when its attachment does
\* not decode; a failed dispatch is returned as {success:false, error} and
\* not repeated.
C20_OneDispatchPerCall ==
  lastOp = "sendMessage"
    => /\ Len(sent) <= 1
       /\ (Addressed /\ call.params.document # NoDocument)
            => IF Decodable(call.params.document)
               THEN Len(sent) = 1
               ELSE sent = <<>> /\ result = Failure(ErrThrown)
       /\ (Addressed /\ call.params.document = NoDocument /\ ~NoText)
            => Len(sent) = 1
       /\ FailureIsReturned

\* the one dispatch of a call was rejected and the call returned the failure
C20_Witness ==
  /\ Addressed
  /\ Len(sent) = 1
  /\ ~call.resolves
  /\ result = Failure(ErrThrown)

\* ------------------------------------------------------------- C21 .. C30
\* the error messages a result carries
Errors == {ErrNotConnected, ErrNoSocket, ErrNoPhone, ErrNoText, ErrThrown}

\* C21: every sendMessage() and every logout() returns a structured result:
\* {success: true}, or {success: false} with an error message; no exception
\* leaves either call, whatever the session state and the input are and
\* whether or not the transport's send or end fails.
C21_AlwaysStructuredResult ==
  lastOp \in {"sendMessage", "logout:done", "logout:failed"}
    => result \in {Success} \cup {Failure(e) : e \in Errors}

\* logout() held a handle whose end failed and returned the failure
C21_Witness ==
  /\ lastOp = "logout:failed"
  /\ socket = Held
  /\ result = Failure(ErrThrown)

\* the self-identities from which no identifier can be extracted: none, one
\* that is no string, and ones with nothing before the '@' or the ':'
Unidentified == {NoJid, NonString, JidNoUser, JidNoNumber}

Before(s, c) ==
  LET n == CHOOSE k \in 0..Len(s) :
             /\ \A i \in 1..k : s[i] # c
             /\ k < Len(s) => s[k + 1] = c
  IN SubSeq(s, 1, n)

CountryCode == <<"9", "1">>
Subscriber(jid) == Before(Before(jid, "@"), ":")
StartsWithCountryCode(s) == Len(s) >= 2 /\ SubSeq(s, 1, 2) = CountryCode
WithoutCountryCode(s) == SubSeq(s, 3, Len(s))

\* the reduction as stated: the prefix goes whenever it is there
Reduced(jid) ==
  IF StartsWithCountryCode(Subscriber(jid))
  THEN WithoutCountryCode(Subscriber(jid)) ELSE Subscriber(jid)

\* the reduction with the prefix kept in an identifier of ten characters or fewer
ReducedWhenLong(jid) ==
  IF StartsWithCountryCode(Subscriber(jid)) /\ Len(Subscriber(jid)) > 10
  THEN WithoutCountryCode(Subscriber(jid)) ELSE Subscriber(jid)

\* the last step read a self-identity from which an identifier is extracted
IdentityRead ==
  /\ lastOp \in {"update:open", "getPhoneNumber"}
  /\ userId \notin Unidentified \cup {NoRead}

\* C23 as stated: on open, the cached identity is the self-identity reduced
\* to its part before '@', then before the first ':', then without the
\* prefix '91' whenever what remains starts with it.
C23_IdentityReduction == IdentityRead => phoneNumber = Reduced(userId)

\* C23 amended: on open (and in getPhoneNumber()'s fallback), the cached
\* identity is the self-identity reduced to its part before '@', then before
\* the first ':', then without the prefix '91' when what remains starts with
\* it and is longer than ten characters.
C23_IdentityReductionWhenLong ==
  IdentityRead
    => /\ phoneNumber = ReducedWhenLong(userId)
       /\ lastOp = "getPhoneNumber" => result = Returned(phoneNumber)

\* an open event cached 9876543210 from 919876543210:5@s
C23_Witness ==
  /\ lastOp = "update:open"
  /\ userId = JidIndia
  /\ phoneNumber = <<"9", "8", "7", "6", "5", "4", "3", "2", "1", "0">>

\* C24: getQR(), getStatus() and getPhoneNumber() are read-only: a call of
\* any of them changes none of status, challenge, identity, guard and held
\* handle, and emits no event.
C24_GettersReadOnly ==
  [][lastOp' \in {"getQR", "getStatus", "getPhoneNumber"}
       => /\ UNCHANGED <<socket, currentQR, currentStatus, isInitializing, phoneNumber>>
          /\ emitted' = <<>>]_vars

\* C25: once disconnect() has run, the session is destroyed: no handle is
\* held, status is not open, challenge and identity are null, and no
\* reconnect timer is pending that would open a handle afterwards.
C25_DisconnectDestroysSession ==
  lastOp = "disconnect"
    => /\ socket = NoSocket
       /\ currentStatus # "open"
       /\ currentQR = NullQR
       /\ phoneNumber = Null
       /\ timers = <<>>

\* the positions of '&' in r, and the end of the piece that starts after a
Amps(r) == {i \in DOMAIN r : r[i] = "&"}
PieceEnd(r, a) ==
  IF \E b \in Amps(r) : b > a
  THEN CHOOSE b \in Amps(r) : b > a /\ \A x \in Amps(r) : x > a => b <= x
  ELSE Len(r) + 1

\* the piece after the '&' at a is k=v with k and v non-empty
IsParam(r, a) ==
  \E e \in (a + 2)..(PieceEnd(r, a) - 2) :
    r[e] = "=" /\ \A j \in (a + 1)..(e - 1) : r[j] # "="

\* what follows 'openLink=' in a deep link that starts with 'iris://?openLink='
AfterOpenLinkEq(url) == SubSeq(url, 5, Len(url))

\* url is iris://?openLink=V&k1=v1&...&kn=vn with n >= 1, a '?' in V, and
\* every ki and vi non-empty
IsEmbedding(url) ==
  /\ Len(url) > 4
  /\ SubSeq(url, 1, 4) = <<Scheme, "?", OpenLink, "=">>
  /\ LET r == AfterOpenLinkEq(url)
     IN /\ Amps(r) # {}
        /\ \E i \in DOMAIN r : r[i] = "?" /\ \A a \in Amps(r) : i < a
        /\ \A a \in Amps(r) : IsParam(r, a)

\* the deep link of the last step, which was a parseDeeplink call
Parsed == lastOp = "parseDeeplink"

\* C26: for every deep link iris://?openLink=V&k1=v1&...&kn=vn whose V has
\* a '?' and no '&' and whose ki and vi are non-empty, parseDeeplink returns
\* V&k1=v1&...&kn=vn, all that follows 'openLink='.
C26_EmbeddedUrlInFull ==
  (Parsed /\ IsEmbedding(call.params))
    => result = Returned(AfterOpenLinkEq(call.params))

\* the query string of a deep link: the text between its first '?' and the
\* '#' that starts the fragment; none when the '?' is not there, comes after
\* the '#', or the string is no URL
QueryString(url) ==
  LET hash == IF \E i \in DOMAIN url : url[i] = "#"
              THEN CHOOSE i \in DOMAIN url : url[i] = "#" /\ \A j \in 1..(i - 1) : url[j] # "#"
              ELSE Len(url) + 1
      marks == {i \in 1..(hash - 1) : url[i] = "?"}
  IN IF url = <<>> \/ url[1] # Scheme \/ marks = {} THEN <<>>
     ELSE SubSeq(url, (CHOOSE i \in marks : \A j \in marks : i <= j) + 1, hash - 1)

\* q has a parameter whose name is exactly 'openLink'
HasOpenLinkParam(q) ==
  \E i \in DOMAIN q :
    /\ q[i] = OpenLink
    /\ i = 1 \/ q[i - 1] = "&"
    /\ i = Len(q) \/ q[i + 1] \in {"=", "&"}

\* C27: parseDeeplink returns for every input (a string or null, nothing is
\* raised), and returns null for every input whose query string has no
\* parameter named exactly 'openLink': inputs that are no URLs, that have no
\* query string, or whose parameter names only end in 'openLink'.
C27_NullWithoutOpenLink ==
  Parsed
    => /\ result.success = "none"
       /\ ~HasOpenLinkParam(QueryString(call.params)) => result = Returned(Null)

\* the step is the connection.update listener run by an event of a handle
\* the manager has ended
StaleEvent ==
  \E u \in Updates :
    /\ Delivers("ended", u)
    /\ UpdateClose("ended", u)

\* C28: an event delivered by a handle the manager has already ended does
\* not end the newer handle it holds and changes none of status, challenge,
\* identity and guard of the session that runs on the newer handle.
C28_StaleEventsIgnored ==
  [][(socket = Held /\ StaleEvent)
       => UNCHANGED <<socket, currentQR, currentStatus, isInitializing, phoneNumber>>]_vars

\* how many times the last step emitted e
EmittedTimes(e) == Cardinality({i \in DOMAIN emitted : emitted[i] = e})

\* C29: processing one open event emits status-update(open) exactly once,
\* and processing one close event emits status-update(close) exactly once
\* and qr-update(null) exactly once.
C29_EachTransitionAnnouncedOnce ==
  /\ lastOp = "update:open" => EmittedTimes(StatusEv("open")) = 1
  /\ lastOp \in {"update:close", "update:close:loggedOut"}
       => /\ EmittedTimes(StatusEv("close")) = 1
          /\ EmittedTimes(QrEv(NullQR)) = 1

\* the qr-update events among es, in order
QrUpdates(es) == SelectSeq(es, LAMBDA e : e[1] = "qr-update")

\* C30: the challenge cache changes only in a step that emits qr-update, and
\* the last qr-update a step emits carries the value the cache has after it;
\* so once a qr-update has been emitted, getQR() returns the value of the
\* most recent one.
C30_ChallengeMatchesLastEmission ==
  [][IF QrUpdates(emitted') = <<>>
     THEN currentQR' = currentQR
     ELSE QrUpdates(emitted')[Len(QrUpdates(emitted'))] = QrEv(currentQR')]_vars

\* a challenge has been emitted and is what getQR() returns
C30_Witness ==
  /\ lastOp = "getQR"
  /\ currentQR \in QRs
  /\ result = Returned(currentQR)

\* ------------------------------------------------------------- C31 .. C38
\* the status-update events among es, in order
StatusUpdates(es) == SelectSeq(es, LAMBDA e : e[1] = "status-update")

\* C31: the status field changes only in a step that emits status-update,
\* and the last status-update a step emits carries the value the field has
\* after it; so once a status-update has been emitted, getStatus() returns
\* the value of the most recent one.
C31_StatusMatchesLastEmission ==
  [][IF StatusUpdates(emitted') = <<>>
     THEN currentStatus' = currentStatus
     ELSE StatusUpdates(emitted')[Len(StatusUpdates(emitted'))] = StatusEv(currentStatus')]_vars

\* a 'connecting' signal has been emitted and is what getStatus() returns
C31_Witness ==
  /\ lastOp = "getStatus"
  /\ currentStatus = "connecting"
  /\ result = Returned("connecting")

\* C32: sendMessage() leaves the session as it was, whatever its outcome:
\* status, challenge, identity, guard and held handle are unchanged by the
\* call, and the call emits no event.
C32_SendLeavesSessionAlone ==
  [][lastOp' = "sendMessage"
       => /\ UNCHANGED <<socket, currentQR, currentStatus, isInitializing, phoneNumber>>
          /\ emitted' = <<>>]_vars

\* a dispatch was made and rejected, and the session is still open on its
\* handle
C32_Witness ==
  /\ SentWhileOpen
  /\ Len(sent) = 1
  /\ result = Failure(ErrThrown)
  /\ emitted = <<>>

\* s without its leading and trailing white space
TrimOf(s) ==
  CHOOSE t \in {SubSeq(s, i, j) : i \in 1..(Len(s) + 1), j \in 0..Len(s)} : IsTrimOf(t, s)

\* the domain suffixes of the platform: of a user ('@s.whatsapp.net') and of
\* a group ('@g.us')
PlatformDomains == {<<"@", "s", ".", "w">>, <<"@", "g">>}
CanonicalSuffix == <<"@", "s", ".", "w">>
HasDomainSuffix(t) ==
  \E d \in PlatformDomains :
    Len(t) >= Len(d) /\ SubSeq(t, Len(t) - Len(d) + 1, Len(t)) = d

\* C33: every dispatched send goes to the trimmed target as it is when that
\* ends in a platform-domain suffix, and to the trimmed target with
\* '@s.whatsapp.net' appended when it does not; no send goes to a target
\* without domain suffix.
C33_TargetCarriesDomain ==
  (SentWhileOpen /\ sent # <<>>)
    => /\ sent[1].jid = IF HasDomainSuffix(TrimOf(call.params.phone))
                        THEN TrimOf(call.params.phone)
                        ELSE TrimOf(call.params.phone) \o CanonicalSuffix
       /\ HasDomainSuffix(sent[1].jid)

\* the call has an attachment, a non-empty target and a text that is empty
\* or missing, and passed the connection check
AttachmentOnly ==
  /\ Addressed
  /\ call.params.document # NoDocument
  /\ call.params.message \in {Undefined, <<>>}

\* C34 as stated: with status open, a handle held and a non-empty target, a
\* sendMessage() with an attachment and an empty or missing text is not
\* refused for its text: it dispatches the attachment once, without caption,
\* and returns success when the dispatch succeeds.
C34_AttachmentAlwaysDispatched ==
  AttachmentOnly
    => /\ result # Failure(ErrNoText)
       /\ Len(sent) = 1
       /\ sent[1].kind \in {"image", "document"}
       /\ sent[1].text = Undefined
       /\ call.resolves => result = Success

\* C34 amended: such a call is not refused for its text; when its attachment
\* decodes it dispatches the attachment once, without caption, and returns
\* success when the dispatch succeeds; when decoding throws it dispatches
\* nothing and returns the failure.
C34_AttachmentWithoutCaption ==
  AttachmentOnly
    => /\ result # Failure(ErrNoText)
       /\ IF Decodable(call.params.document)
          THEN /\ Len(sent) = 1
               /\ sent[1].kind \in {"image", "document"}
               /\ sent[1].text = Undefined
               /\ call.resolves => result = Success
          ELSE sent = <<>> /\ result = Failure(ErrThrown)

\* an attachment went out alone, with the empty text of the call left out
C34_Witness ==
  /\ AttachmentOnly
  /\ call.params.message = <<>>
  /\ Len(sent) = 1
  /\ sent[1].text = Undefined
  /\ result = Success

\* the parameters of the deep link of the last step, and where openLink is
\* among them
ParamsParsed == SearchParams(call.params)
OpenLinkAt == FindOpenLink(ParamsParsed)

\* parseDeeplink rebuilt the value: openLink has a value, parameters follow
\* it, and the value has no '&' or one of them has a known name
Rebuilt ==
  /\ Parsed
  /\ IsUrl(call.params)
  /\ OpenLinkAt # 0
  /\ ParamsParsed[OpenLinkAt].value # <<>>
  /\ OpenLinkAt < Len(ParamsParsed)
  /\ \/ ~Includes(ParamsParsed[OpenLinkAt].value, "&")
     \/ \E i \in (OpenLinkAt + 1)..Len(ParamsParsed) : ParamsParsed[i].key \in UrlParamNames

\* the value of openLink, then key=value of every parameter after it
AllRejoined ==
  Join(<<ParamsParsed[OpenLinkAt].value>>
         \o [i \in 1..(Len(ParamsParsed) - OpenLinkAt) |->
               ParamsParsed[OpenLinkAt + i].key \o <<"=">> \o ParamsParsed[OpenLinkAt + i].value],
       "&")

\* C35: when parseDeeplink rebuilds the embedded value, the result is the
\* parsed value of openLink followed by key=value of every parameter after
\* openLink, joined by '&' in their order: none is left out, one with an
\* empty value included, and none of those before openLink is taken in.
C35_EveryLaterPairRejoined == Rebuilt => result = Returned(AllRejoined)

\* the structured parse of url gives no value for openLink: url is no URL,
\* or none of its parameters is named openLink, or the first one is empty
NoStructuredValue(url) ==
  \/ ~IsUrl(url)
  \/ FindOpenLink(SearchParams(url)) = 0
  \/ SearchParams(url)[FindOpenLink(SearchParams(url))].value = <<>>

\* the text after the first '?' of url
AfterFirstMark(url) == Substring(url, IndexOf(url, "?") + 1)

\* url has 'openLink=' after a '?'
HasMarker(url) == Includes(url, "?") /\ IndexOfOpenLinkEq(AfterFirstMark(url)) # 0

\* all that follows the first 'openLink=' after the first '?'
AfterMarker(url) ==
  Substring(AfterFirstMark(url), IndexOfOpenLinkEq(AfterFirstMark(url)) + 2)

\* C36: when the structured parse of the input gives no openLink value (the
\* input is no URL, or openLink is absent or empty) and the input has
\* 'openLink=' after a '?', parseDeeplink returns all that follows the first
\* such marker, percent-decoded, or as it is when the decoding fails.
C36_FallbackAfterMarker ==
  (Parsed /\ NoStructuredValue(call.params) /\ HasMarker(call.params))
    => result = Returned(IF Malformed(AfterMarker(call.params))
                         THEN AfterMarker(call.params)
                         ELSE DecodeURIComponent(AfterMarker(call.params)))

\* the step handled a deep link from which parseDeeplink extracts no value
NothingExtracted == call'.resolves = "deeplink" /\ ~Truthy(ParseDeeplink(call'.params))

\* C37: whatever deep links arrive (at launch, by open-url, by
\* second-instance), the host has constructed at most one service and has
\* registered the qr-update and the status-update forwarder once on the
\* service it constructed; a deep link from which no openLink value is
\* extracted constructs no service and leaves the stored openLink as it was.
C37_OneServiceOnly ==
  /\ [](/\ instances <= 1
        /\ instances = (IF started THEN 1 ELSE 0)
        /\ \A e \in DOMAIN forwarders : forwarders[e] = instances)
  /\ [][NothingExtracted => (instances' = instances /\ openLink' = openLink)]_vars

\* a deep link without openLink has been handled after one with openLink had
\* made the host construct its service
C37_Witness ==
  /\ lastOp = "handleDeeplink:ignored"
  /\ call.resolves = "deeplink"
  /\ instances = 1
  /\ Truthy(openLink)

\* C38: whenever the status the host last forwarded is close and a window
\* exists, the window shows index.html, the local pairing screen, and not
\* the page of an openLink: the status-update(close) that follows a
\* navigation takes the window back, also when a deep link has reset the
\* navigation flag in between.
C38_ClosedShowsPairingScreen ==
  (forwarded = "close" /\ mainWindow # NoWindow) => mainWindow = IndexHtml

====
